---- MODULE Spec2Model ----
(***************************************************************************)
(* Model of publish-github-to-hashnode: the GitHub-Action entrypoint       *)
(* (entrypoint.py, graphql.py, constants.py) that reconciles local         *)
(* markdown posts with a Hashnode publication, and the refactored service  *)
(* package (src/post_service.py, src/models.py, ...).                      *)
(***************************************************************************)
EXTENDS Integers, Sequences, FiniteSets, TLC

VARIABLES
    run,            \* number of the current invocation of main(), or of
                    \* PostService.publish_post
    pc,             \* position of main(): start, files, write, sweep_list,
                    \* sweep_delist, report, done, aborted; of a caller of
                    \* PostService.publish_post: svc_idle, svc_write
    exc,            \* exception that ended the run ("none" while running)
    disk,           \* the posts directory: path -> document
    changed,        \* ALL_CHANGED_FILES not yet handled by main's loop
    cur,            \* file_path inside handle_post
    post_id,        \* post_id inside handle_post (NoneId for None)
    publication_id, \* api.publication_id (NoneId before it is fetched)
    remote,         \* the publication's posts at Hashnode: set of records
    slugs,          \* slugs in handle_deleted_posts
    after,          \* variables["after"] in get_all_publication_posts
    all_posts,      \* all_posts in get_all_publication_posts
    posts,          \* posts in handle_deleted_posts
    idx,            \* position of the for loop over posts
    results,        \* the global results dictionary
    debug_data,     \* the global debug_data list of entrypoint.py
    api_debug,      \* api.debug_data
    now,            \* the clock read by datetime.now, from the start of the run
    calls,          \* every request handed to requests.post, in order
    output,         \* what was written to GITHUB_OUTPUT
    prev_created,   \* the posts the previous run's creates made in the publication
    prev_sweep,     \* what the previous run's sweep did, when nothing failed in it
    fm,             \* the front matter frontmatter.load read from one file
    stage,          \* what was done with it: raw, validated, built, processed, rejected
    metadata,       \* MarkdownFileHandler.metadata after _validate
    post_model,     \* the Post that MarkdownProcessor.process_file built
    added_files,    \* os.environ["ADDED_FILES"].split()
    changed_files,  \* os.environ["CHANGED_FILES"].split()
    all_changed_files,  \* ALL_CHANGED_FILES as the for loop of main has it left
    dispatched      \* the files main has passed to handle_post, in order

vars == <<run, pc, exc, disk, changed, cur, post_id, publication_id, remote,
          slugs, after, all_posts, posts, idx, results, debug_data,
          api_debug, now, calls, output, prev_created, prev_sweep, fm, stage, metadata, post_model,
          added_files, changed_files, all_changed_files, dispatched>>

\* the variables of one run, those of one document, and those of the
\* file lists
runVars == <<run, pc, exc, disk, changed, cur, post_id, publication_id, remote,
             slugs, after, all_posts, posts, idx, results, debug_data,
             api_debug, now, calls, output, prev_created, prev_sweep>>
docVars == <<fm, stage, metadata, post_model>>
listVars == <<added_files, changed_files, all_changed_files, dispatched>>

-----------------------------------------------------------------------------
(* Bounds of the model *)

MaxRuns == 2        \* invocations of main() against the same publication
MaxRemote == 2      \* posts in the publication before the first run
PageCap == 1        \* edges the server puts on one page of the listing
TicksPerSec == 2    \* clock readings that fall into the same second

MaxLen == 3         \* characters in a title or a slug of the front matter
MaxSegments == 2    \* pieces a body is written from
MaxListed == 2      \* paths in ADDED_FILES, and in CHANGED_FILES

(* Program constants *)

First == 50         \* variables["first"]
NoneId == 0         \* Python's None where an id is expected
NoPath == "none"

-----------------------------------------------------------------------------
(* The environment: files, documents, the publication *)

PostPaths == {"posts/p1.md", "posts/p2.md"}
OtherPaths == {"README.txt"}
Paths == PostPaths \cup OtherPaths

\* the paths the file lists of the environment are written from
ListedPaths == {"posts/p1.md", "README.txt", "posts/notes.txt", "docs/p3.md"}

\* POSTS_DIRECTORY, as the parts of the path
PostsDirectory == <<"posts">>

\* Path(f).parent.parts and Path(f).suffix
Parent(f) == IF f \in {"README.txt"} THEN <<>>
             ELSE IF f \in {"docs/p3.md"} THEN <<"docs">>
             ELSE <<"posts">>
Suffix(f) == IF f \in {"README.txt", "posts/notes.txt"} THEN ".txt" ELSE ".md"

Slugs == {"a", "b", "c"}

\* What frontmatter.load finds in a file.
\*   ok        a title and a body
\*   no_title  the title is missing
\*   bad_tags  tags is a YAML list, not a string
\*   no_body   the body is empty
\*   missing   there is no file at the path
DocKinds == {"ok", "no_title", "bad_tags", "no_body", "missing"}

\* the settings of the front matter: enableTableOfContents, delisted,
\* disableComments; an absent key reads as False
NoFlags == [toc |-> FALSE, delisted |-> FALSE, comments |-> FALSE]

\* a document that does not validate never gets a slug; the document with
\* the slug a turns the table of contents on, the one with the slug b turns
\* the comments off
Documents ==
    {[slug |-> "a", kind |-> "ok", flags |-> [NoFlags EXCEPT !.toc = TRUE]],
     [slug |-> "b", kind |-> "ok", flags |-> [NoFlags EXCEPT !.comments = TRUE]]}
        \cup [slug : {"-"}, kind : DocKinds \ {"ok"}, flags : {NoFlags}]

\* Publication posts: {id, slug, delisted}
PubId == 100

\* PUBLICATION_HOST
Host == "blog.example.com"

RemotePosts(ids) == [id : ids, slug : Slugs, delisted : BOOLEAN]

UniqueIdsAndSlugs(S) ==
    \A r1, r2 \in S : (r1.id = r2.id \/ r1.slug = r2.slug) => r1 = r2

\* Answers of the HTTP exchange in _execute_request.
\*   ok                2xx, {"data": {...}}
\*   http_error        non-2xx status
\*   errors_no_data    2xx, {"errors": [...]}
\*   errors_null_data  2xx, {"errors": [...], "data": null}
\*   errors_null_post  2xx, {"errors": [...], "data": {"publication":
\*                     {"post": null}}}: the answer to a lookup whose post
\*                     field failed
\*   timeout           requests.post raises (timeout, connection error)
RespKinds == {"ok", "http_error", "errors_no_data", "errors_null_data", "timeout"}

\* the answers to a lookup: the field that fails there is the post, which is
\* nullable, so data comes back with a null post; in the other operations a
\* failed field leaves the chain the code subscripts null, as in
\* errors_null_data
LookupKinds == RespKinds \cup {"errors_null_post"}

-----------------------------------------------------------------------------
(* Strings: sequences of characters *)

Chars == {"A", "b", " ", "-"}

RECURSIVE StringsUpTo(_)
StringsUpTo(n) ==
    IF n = 0 THEN {<<>>}
    ELSE LET shorter == StringsUpTo(n - 1)
         IN shorter \cup {Append(w, c) : w \in shorter, c \in Chars}

Strings == StringsUpTo(MaxLen)

\* str.isspace of one character
IsSpace(c) == c = " "

\* str.lower
Lower(w) ==
    [i \in 1..Len(w) |-> CASE w[i] = "A" -> "a" [] w[i] = "B" -> "b" [] OTHER -> w[i]]

RECURSIVE LStrip(_)
LStrip(w) == IF w # <<>> /\ IsSpace(Head(w)) THEN LStrip(Tail(w)) ELSE w

RECURSIVE RStrip(_)
RStrip(w) ==
    IF w # <<>> /\ IsSpace(w[Len(w)]) THEN RStrip(SubSeq(w, 1, Len(w) - 1)) ELSE w

\* str.strip
Strip(w) == RStrip(LStrip(w))

\* re.sub(r"\s+", "-", w): every maximal run of whitespace becomes one hyphen
RECURSIVE SubSpaces(_)
SubSpaces(w) ==
    IF w = <<>> THEN <<>>
    ELSE IF IsSpace(Head(w)) THEN <<"-">> \o SubSpaces(LStrip(w))
    ELSE <<Head(w)>> \o SubSpaces(Tail(w))

\* str.split(): the words between runs of whitespace, none of them empty
RECURSIVE Split(_, _)
Split(w, word) ==
    IF w = <<>> THEN (IF word = <<>> THEN <<>> ELSE <<word>>)
    ELSE IF IsSpace(Head(w))
         THEN (IF word = <<>> THEN <<>> ELSE <<word>>) \o Split(Tail(w), <<>>)
    ELSE Split(Tail(w), Append(word, Head(w)))

\* "-".join(words)
RECURSIVE Join(_)
Join(words) ==
    IF words = <<>> THEN <<>>
    ELSE IF Len(words) = 1 THEN words[1]
    ELSE words[1] \o <<"-">> \o Join(Tail(words))

\* MarkdownFileHandler._generate_slug
GenerateSlug(title) == SubSpaces(Lower(Strip(title)))

\* MarkdownFileHandler._validate_frontmatter: metadata["slug"]
ValidatedSlug(m) == GenerateSlug(IF m.has_slug THEN m.slug ELSE m.title)

\* Post._generate_slug
PostGenerateSlug(title) == Join(Split(Lower(Strip(title)), <<>>))

\* Post.slug: metadata.slug or _generate_slug(metadata.title)
PostSlug(m) ==
    IF m.has_slug /\ m.slug # <<>> THEN m.slug ELSE PostGenerateSlug(m.title)

\* str.split(","): the pieces between the commas, empty ones included
RECURSIVE SplitComma(_, _)
SplitComma(w, piece) ==
    IF w = <<>> THEN <<piece>>
    ELSE IF Head(w) = "," THEN <<piece>> \o SplitComma(Tail(w), <<>>)
    ELSE SplitComma(Tail(w), Append(piece, Head(w)))

\* as TagList, but the name is lower-cased like the slug
TagList_LowerName(tags) ==
    LET pieces == SplitComma(tags, <<>>)
    IN [i \in 1..Len(pieces) |->
            [slug |-> Lower(Strip(pieces[i])), name |-> Lower(Strip(pieces[i]))]]

\* the list comprehension of _process_tags and of _process_metadata
TagList(tags) ==
    LET pieces == SplitComma(tags, <<>>)
    IN [i \in 1..Len(pieces) |->
            [slug |-> Lower(Strip(pieces[i])), name |-> Strip(pieces[i])]]

\* MarkdownFileHandler._validate_frontmatter: metadata["tags"], from
\* metadata.get("tags", "")
ValidatedTags(m) == TagList(IF m.has_tags THEN m.tags ELSE <<>>)

\* MarkdownProcessor._process_metadata: the tags of PostMetadata; without the
\* key the field keeps its default None
PostTags(m) ==
    IF m.has_tags THEN [is_none |-> FALSE, list |-> TagList(m.tags)]
    ELSE [is_none |-> TRUE, list |-> <<>>]

\* content.strip() is empty
IsBlank(body) == \A i \in 1..Len(body) : body[i] \in {" ", "\n"}

\* MarkdownFileHandler._validate: the exception of _validate_content,
\* _validate_frontmatter or _process_tags, if any
ValidateError(m) ==
    CASE IsBlank(m.body) -> "ValueError"
      [] ~m.has_title -> "ValueError"
      [] m.has_tags /\ ~m.tags_is_str -> "ValueError"
      [] OTHER -> "none"

\* MarkdownProcessor.process_file: the exception of _validate_content or
\* _process_metadata, if any
ProcessError(m) ==
    CASE IsBlank(m.body) -> "InvalidPostError"
      [] ~m.has_title -> "InvalidPostError"
      [] m.has_tags /\ ~m.tags_is_str -> "AttributeError"
      [] OTHER -> "none"

\* _get_resource_url of file_path.parent / path
ResourceUrl(path) == <<"http", "raw/posts/">> \o path

\* "." of the regular expression: any token but a line break
NoLineBreak(w, from, to) == \A i \in from..to : w[i] # "\n"

\* the ends of group 1 at which !\[(.*?)\]\((?!http)(.*?)\) matches from i:
\* the positions of a "]" that is followed by "(", not by "(http", and
\* later on the line by ")"
Group1Ends(w, i) ==
    {j \in (i + 2)..Len(w) :
        /\ w[j] = "]"
        /\ NoLineBreak(w, i + 2, j - 1)
        /\ j + 1 <= Len(w) /\ w[j + 1] = "("
        /\ ~(j + 2 <= Len(w) /\ w[j + 2] = "http")
        /\ \E k \in (j + 2)..Len(w) : w[k] = ")" /\ NoLineBreak(w, j + 2, k - 1)}

\* the expression matches from i: "![" stands there and group 1 can end
MatchesAt(w, i) ==
    /\ i + 1 <= Len(w)
    /\ w[i] = "!"
    /\ w[i + 1] = "["
    /\ Group1Ends(w, i) # {}

\* re.sub from position i on: the leftmost match, with the shortest group 1
\* and the shortest group 2, is replaced by the image with the resource URL
\* of its path, and the substitution goes on behind the match
RECURSIVE SubFrom(_, _)
SubFrom(w, i) ==
    IF i > Len(w) THEN <<>>
    ELSE IF ~MatchesAt(w, i) THEN <<w[i]>> \o SubFrom(w, i + 1)
    ELSE LET j == CHOOSE e \in Group1Ends(w, i) : \A f \in Group1Ends(w, i) : e <= f
             closes == {c \in (j + 2)..Len(w) : w[c] = ")" /\ NoLineBreak(w, j + 2, c - 1)}
             k == CHOOSE c \in closes : \A d \in closes : c <= d
         IN <<"!", "[">> \o SubSeq(w, i + 2, j - 1) \o <<"]", "(">>
                \o ResourceUrl(SubSeq(w, j + 2, k - 1)) \o <<")">>
                \o SubFrom(w, k + 1)

\* MarkdownFileHandler._update_image_urls, MarkdownProcessor._process_content
UpdateImageUrls(content) == SubFrom(content, 1)

-----------------------------------------------------------------------------
(* Timestamps of debug entries *)

\* datetime.now(ZoneInfo("UTC")) at clock reading t: (second, microsecond)
Seconds(t) == t \div TicksPerSec
Micros(t) == t % TicksPerSec

\* strftime("%Y-%m-%d %H:%M:%S:%f"): a string with the microseconds
StrfMicro(t) == [type |-> "str", v |-> <<Seconds(t), Micros(t)>>]
\* strftime("%Y-%m-%d %H:%M:%S"): a string that stops at the seconds
StrfSec(t) == [type |-> "str", v |-> <<Seconds(t)>>]
\* the datetime object itself
RawDatetime(t) == [type |-> "datetime", v |-> <<Seconds(t), Micros(t)>>]

Entry(ts, what) == [ts |-> ts, what |-> what]

\* a < b for two strftime strings (str.__lt__): lexicographic, a proper
\* prefix is smaller
RECURSIVE StrLess(_, _)
StrLess(a, b) ==
    IF b = <<>> THEN FALSE
    ELSE IF a = <<>> THEN TRUE
    ELSE IF Head(a) # Head(b) THEN Head(a) < Head(b)
    ELSE StrLess(Tail(a), Tail(b))

\* list.sort(key=lambda x: x[0]) raises TypeError when the keys are not
\* all of one type ('<' not supported between datetime and str)
SortRaises(list) ==
    \E i, j \in 1..Len(list) : list[i].ts.type # list[j].ts.type

\* insert e behind every element that is not greater (stable)
RECURSIVE InsertSorted(_, _)
InsertSorted(sorted, e) ==
    IF sorted = <<>> THEN <<e>>
    ELSE IF StrLess(e.ts.v, Head(sorted).ts.v) THEN <<e>> \o sorted
    ELSE <<Head(sorted)>> \o InsertSorted(Tail(sorted), e)

RECURSIVE SortByTimestamp(_)
SortByTimestamp(list) ==
    IF list = <<>> THEN <<>>
    ELSE InsertSorted(SortByTimestamp(SubSeq(list, 1, Len(list) - 1)), list[Len(list)])

-----------------------------------------------------------------------------
(* graphql.py: HashnodeAPI *)

\* _execute_request: what the caller gets back for an HTTP exchange.
\*   raised  requests.post raised; nothing is caught here
\*   body    the shape of the returned dictionary
\*   log     entries appended to self.debug_data
ExecuteRequest(kind, t) ==
    [raised |-> kind = "timeout",
     body   |-> CASE kind = "ok" -> "data"
                  [] kind = "http_error" -> "empty"
                  [] kind = "errors_no_data" -> "errors_only"
                  [] kind = "errors_null_data" -> "null_data"
                  [] kind = "errors_null_post" -> "null_post"
                  [] OTHER -> "none",
     log    |-> IF kind = "http_error"
                THEN <<Entry(StrfSec(t), "request_failed")>>
                ELSE <<>>]

\* response["data"][...]: the exception of the subscript chain, if any
Subscript(body) ==
    CASE body = "data" -> "none"
      [] body = "null_data" -> "TypeError"
      [] OTHER -> "KeyError"

\* one exchange with the server: the request (operation, slug, id and cursor
\* variables, the file it is made for), the kind of answer, and the post id
\* a lookup found, and the variables of the request as they are sent
Call(op, slug, id, file, cursor, kind, found, variables) ==
    [op |-> op, slug |-> slug, id |-> id, file |-> file, after |-> cursor,
     reply |-> kind, found |-> found, variables |-> variables]

\* the publication's listing, in the server's order
RECURSIVE Listing(_)
Listing(S) ==
    IF S = {} THEN <<>>
    ELSE LET m == CHOOSE r \in S : \A q \in S : r.id <= q.id
         IN <<[id |-> m.id, slug |-> m.slug]>> \o Listing(S \ {m})

FreshId(S) == IF S = {} THEN 1 ELSE 1 + (CHOOSE i \in {r.id : r \in S} : \A r \in S : r.id <= i)

\* publishPost on the server
PublishPost(S, slug, delisted) == S \cup {[id |-> FreshId(S), slug |-> slug, delisted |-> delisted]}
\* updatePost on the server, with the settings of a full update
UpdatePost(S, id, slug, delisted) ==
    {IF r.id = id THEN [id |-> id, slug |-> slug, delisted |-> delisted] ELSE r : r \in S}
\* updatePost on the server with an input of an id and the delisted setting
DelistPost(S, input) ==
    {IF r.id = input.id THEN [r EXCEPT !.delisted = input.settings.delisted] ELSE r : r \in S}

Min(a, b) == IF a <= b THEN a ELSE b

\* the server's answer to posts(first, after): the edges and the pageInfo
Page(S, first, cursor) ==
    LET full == Listing(S)
        last == Min(cursor + Min(first, PageCap), Len(full))
    IN [edges |-> SubSeq(full, cursor + 1, last),
        endCursor |-> last,
        hasNextPage |-> last < Len(full)]

\* as FetchRaises, but a response without the id is read with defaults and
\* the publication id becomes None
FetchRaises_Defaulted(r) == IF r.raised THEN "Timeout" ELSE "none"

\* _fetch_publication_id: the exception that leaves it, if any
FetchRaises(r) == IF r.raised THEN "Timeout" ELSE Subscript(r.body)

\* publication(host).post(slug) on the server: the id of the post, if any
PostIdOf(S, slug) ==
    IF \E r \in S : r.slug = slug
    THEN (CHOOSE r \in S : r.slug = slug).id
    ELSE NoneId

\* HashnodeAPI.get_post_id: the exception of the request or of
\* response["data"]["publication"], if any; a post that is null is read
\* with .get("post")
GetPostIdRaises(r) ==
    IF r.raised THEN "Timeout"
    ELSE IF r.body = "null_post" THEN "none"
    ELSE Subscript(r.body)

\* the publication accepts a publishPost only for a slug no post has
Accepts(S, op, slug) == op = "create" => \A q \in S : q.slug # slug

\* as GetPostId, but the post of the response is never looked at
GetPostId_NeverFound(S, slug, body) == NoneId

\* HashnodeAPI.get_post_id on a response that can be read: post["id"] if
\* post else None; the post is null in a null_post body
GetPostId(S, slug, body) == IF body = "data" THEN PostIdOf(S, slug) ELSE NoneId

\* PostService.get_post_id on a response: post_data["id"] if post_data else None
ServiceGetPostId(S, slug) == PostIdOf(S, slug)

\* as NextCursor, but one past the end of the page
NextCursor_Skip(page) == page.endCursor + 1

\* get_all_publication_posts: variables["after"] for the next request
NextCursor(page) == page.endCursor

\* as PageStep, but a page that cannot be read ends the walk like a last page
PageStep_PartialAsComplete(body, page) ==
    IF Subscript(body) # "none" THEN "break"
    ELSE IF ~page.hasNextPage THEN "break"
    ELSE "continue"

\* get_all_publication_posts, one turn of the while loop on a response:
\* "raise" (the subscript fails), "break" (last page) or "continue"
PageStep(body, page) ==
    IF Subscript(body) # "none" THEN "raise"
    ELSE IF ~page.hasNextPage THEN "break"
    ELSE "continue"

\* create_post, update_post: the field of the mutation, which is the key of
\* the response's data
MutationField(op) == IF op = "create" THEN "publishPost" ELSE "updatePost"

\* create_post, update_post: the action handed to _extract_post_data
ActionOf(op) == IF op = "create" THEN "Created Post" ELSE "Updated Post"

\* _extract_post_data: f"{action.split()[0].lower()}Post"
ExtractKey(action) ==
    CASE action = "Created Post" -> "createdPost"
      [] action = "Updated Post" -> "updatedPost"

\* _extract_post_data on the response of the mutation with the given field:
\* "post" (the post of the response), "empty" ({} after the KeyError was
\* logged) or "raise" (an exception that is not caught)
ExtractPostData(body, action, field) ==
    CASE Subscript(body) = "none" -> IF ExtractKey(action) = field THEN "post" ELSE "empty"
      [] Subscript(body) = "KeyError" -> "empty"
      [] OTHER -> "raise"

\* delist_post after the request: "delisted", "false" (KeyError logged) or
\* "raise"
DelistResult(body) ==
    CASE Subscript(body) = "none" -> "delisted"
      [] Subscript(body) = "KeyError" -> "false"
      [] OTHER -> "raise"

-----------------------------------------------------------------------------
(* entrypoint.py *)

\* MarkdownFileHandler._process_markdown: open() finds no file
OpenRaises(doc) == doc.kind = "missing"

\* MarkdownFileHandler._validate: the ValueError it raises, if any
ValidateRaises(doc) == doc.kind \in {"no_body", "no_title", "bad_tags"}

\* Path.is_relative_to: the parts of the directory begin the path
IsRelativeTo(f, dir) ==
    Len(dir) <= Len(Parent(f)) /\ SubSeq(Parent(f), 1, Len(dir)) = dir

\* main: file_path.is_relative_to(posts_directory) and suffix == ".md"
IsPostFile(f) == IsRelativeTo(f, PostsDirectory) /\ Suffix(f) = ".md"

\* as PostAction, but the post id is not consulted
PostAction_AlwaysCreate(pid) == "create_post"

\* handle_post: post_action
PostAction(pid) == IF pid # NoneId THEN "update_post" ELSE "create_post"

\* handle_post: the bucket of a post that came back
Bucket(pid) == IF pid # NoneId THEN "modified" ELSE "added"

\* as BuildPostData, but the post id is not consulted
BuildPostData_CreateOnly(meta, pid, pubid) ==
    [publicationId |-> pubid,
     slug |-> meta.slug,
     settings |-> [enableTableOfContent |-> meta.flags.toc,
                   delisted |-> meta.flags.delisted,
                   slugOverridden |-> TRUE],
     disableComments |-> meta.flags.comments]

\* MarkdownFileHandler.build_post_data: the publication, the slug and the
\* settings of the post data
BuildPostData(meta, pid, pubid) ==
    IF pid # NoneId
    THEN [id |-> pid,
          publicationId |-> pubid,
          slug |-> meta.slug,
          settings |-> [isTableOfContentEnabled |-> meta.flags.toc,
                        delisted |-> meta.flags.delisted,
                        disableComments |-> meta.flags.comments]]
    ELSE [publicationId |-> pubid,
          slug |-> meta.slug,
          settings |-> [enableTableOfContent |-> meta.flags.toc,
                        delisted |-> meta.flags.delisted,
                        slugOverridden |-> TRUE],
          disableComments |-> meta.flags.comments]

\* as PostAt, but the posts are taken from the end of the listing
PostAt_Reversed(ps, i) == ps[Len(ps) + 1 - i]

\* handle_deleted_posts: the post of the i-th turn of `for post in posts`
PostAt(ps, i) == ps[i]

\* as DelistInput, but the setting is turned off
DelistInput_Relist(id) == [id |-> id, settings |-> [delisted |-> FALSE]]

\* HashnodeAPI.delist_post: post_data
DelistInput(id) == [id |-> id, settings |-> [delisted |-> TRUE]]

\* as ShouldDelist, but a post the sweep of the previous run sent a delist
\* request for is left out
ShouldDelist_OnlyOnce(post, S) == post.slug \notin S /\ post.id \notin prev_sweep.ids

\* handle_deleted_posts: post["slug"] not in slugs
ShouldDelist(post, S) == post.slug \notin S

\* as LoopDone, but the sweep does not wait for the loop
LoopDone_NoWait(S) == TRUE

\* main: the for loop over ALL_CHANGED_FILES is over
LoopDone(S) == S = {}

\* as DiskOrder, but only the files of the run's input are enumerated
DiskOrder_ChangedOnly ==
    SelectSeq(<<"posts/p1.md", "posts/p2.md">>, LAMBDA f : f \in results.input_files)

\* rglob("*.md") on the posts directory, the paths without a file included
DiskOrder == <<"posts/p1.md", "posts/p2.md">>

\* handle_deleted_posts: the set comprehension over the markdown files;
\* each MarkdownFileHandler logs twice, or raises and ends the enumeration
RECURSIVE ReadAll(_, _, _)
ReadAll(files, d, t) ==
    IF files = <<>> THEN [raised |-> FALSE, log |-> <<>>, slugs |-> {}]
    ELSE LET f == Head(files) IN
         IF OpenRaises(d[f]) THEN ReadAll(Tail(files), d, t)
         ELSE IF ValidateRaises(d[f])
         THEN [raised |-> TRUE,
               log |-> <<Entry(StrfMicro(t), "processing_markdown")>>,
               slugs |-> {}]
         ELSE LET rest == ReadAll(Tail(files), d, t + 2) IN
              [raised |-> rest.raised,
               log |-> <<Entry(StrfMicro(t), "processing_markdown"),
                         Entry(StrfMicro(t + 1), "processed_metadata")>> \o rest.log,
               slugs |-> IF rest.raised THEN {} ELSE {d[f].slug} \cup rest.slugs]

\* handle_deleted_posts: where main goes when the loop is at position i
AfterPost(i, ps) == IF i > Len(ps) THEN "report" ELSE "sweep_delist"

\* create_result_summary: post['title'] of a listed post raises KeyError
SummaryRaises(res) ==
    \E b \in {res.added, res.modified, res.deleted} :
        \E i \in 1..Len(b) : "title" \notin b[i].keys

-----------------------------------------------------------------------------
(* src/graphql_client.py, src/markdown_processor.py, src/post_service.py *)

\* GraphQLClient.execute: every answer but a 2xx one without "errors" ends
\* in APIError; a RequestException is logged first
GraphQLClientExecute(kind) ==
    [raised |-> kind # "ok",
     log    |-> IF kind \in {"timeout", "http_error"}
                THEN <<Entry([type |-> "label", v |-> <<>>], "request_failed")>>
                ELSE <<>>]

\* MarkdownProcessor.process_file: the exception it raises, if any
ProcessFileRaises(doc) ==
    CASE doc.kind = "missing" -> "FileNotFoundError"
      [] doc.kind \in {"no_body", "no_title"} -> "InvalidPostError"
      [] doc.kind = "bad_tags" -> "AttributeError"
      [] OTHER -> "none"

\* PostService._build_post_data: the publication, the slug and the settings
\* of the data
ServiceBuildPostData(post, pid) ==
    LET data == [publicationId |-> PubId, slug |-> post.slug]
    IN IF pid # NoneId
       THEN [id |-> pid,
             publicationId |-> data.publicationId,
             slug |-> data.slug,
             settings |-> [isTableOfContentEnabled |-> post.flags.toc,
                           delisted |-> post.flags.delisted,
                           disableComments |-> post.flags.comments]]
       ELSE [publicationId |-> data.publicationId,
             slug |-> data.slug,
             settings |-> [enableTableOfContent |-> post.flags.toc,
                           delisted |-> post.flags.delisted,
                           slugOverridden |-> TRUE],
             disableComments |-> post.flags.comments]

\* PostService._publish_or_update: the mutation it selects
PublishOrUpdate(pid) == IF pid # NoneId THEN "update" ELSE "create"

-----------------------------------------------------------------------------
(* The run *)

\* no sweep to compare with
NoSweep == [ok |-> FALSE, ids |-> {}, delisted |-> {}]

EmptyResults(files) ==
    [input_files |-> files, added |-> <<>>, modified |-> <<>>,
     deleted |-> <<>>, errors |-> <<>>, debug_data |-> <<>>]

InitialRemotes ==
    {S \in SUBSET RemotePosts(1..MaxRemote) :
        /\ UniqueIdsAndSlugs(S)
        /\ {r.id : r \in S} = 1..Cardinality(S)
        /\ \A r \in S : ~r.delisted}

NoFrontmatter ==
    [has_title |-> FALSE, title |-> <<>>, has_slug |-> FALSE, slug |-> <<>>,
     has_tags |-> FALSE, tags_is_str |-> TRUE, tags |-> <<>>,
     segments |-> <<>>, body |-> <<>>]

NoMetadata == [slug |-> <<>>, tags |-> <<>>, content |-> <<>>, error |-> "none"]

NoPost ==
    [slug |-> <<>>, tags |-> [is_none |-> TRUE, list |-> <<>>], content |-> <<>>,
     error |-> "none"]

Init ==
    /\ run = 1
    /\ \/ pc = "start" /\ changed \in SUBSET Paths
       \/ pc = "svc_idle" /\ changed = {}
    /\ exc = "none"
    /\ disk \in [PostPaths -> Documents]
    /\ cur = NoPath
    /\ post_id = NoneId
    /\ publication_id = NoneId
    /\ remote \in InitialRemotes
    /\ slugs = {}
    /\ after = 0
    /\ all_posts = <<>>
    /\ posts = <<>>
    /\ idx = 1
    /\ results = EmptyResults(changed)
    /\ debug_data = <<>>
    /\ api_debug = <<>>
    /\ now = 0
    /\ calls = <<>>
    /\ output = <<>>
    /\ prev_created = {}
    /\ prev_sweep = NoSweep
    /\ fm = NoFrontmatter
    /\ stage = "off"
    /\ metadata = NoMetadata
    /\ post_model = NoPost
    /\ added_files = <<>>
    /\ changed_files = <<>>
    /\ all_changed_files = <<>>
    /\ dispatched = <<>>

\* an exception nobody catches leaves main
Abort(e) == pc' = "aborted" /\ exc' = e

\* HashnodeAPI.__init__ and _fetch_publication_id
FetchPublicationId ==
    /\ pc = "start"
    /\ \E k \in RespKinds :
        LET r == ExecuteRequest(k, now)
            e == FetchRaises(r)
        IN /\ calls' = Append(calls, Call("resolve", "-", NoneId, NoPath, 0, k, NoneId,
                                   [host |-> Host]))
           /\ IF e # "none"
              THEN /\ Abort(e)
                   /\ api_debug' = api_debug \o r.log
                   /\ now' = now + Len(r.log)
                   /\ UNCHANGED publication_id
              ELSE /\ publication_id' = PubId
                   /\ api_debug' = api_debug \o <<Entry(StrfSec(now), "publication_id")>>
                   /\ now' = now + 1
                   /\ pc' = "files"
                   /\ UNCHANGED exc
    /\ UNCHANGED <<run, disk, changed, cur, post_id, remote, slugs, after,
                   all_posts, posts, idx, results, debug_data, output, prev_created, prev_sweep, docVars, listVars>>

\* main: a changed file that is not a post
SkipFile ==
    /\ pc = "files"
    /\ \E f \in changed :
        /\ ~IsPostFile(f)
        /\ results' = [results EXCEPT !.errors = Append(@, [file |-> f, error |-> "not_a_post"])]
        /\ changed' = changed \ {f}
    /\ UNCHANGED <<run, pc, exc, disk, cur, post_id, publication_id, remote,
                   slugs, after, all_posts, posts, idx, debug_data, api_debug,
                   now, calls, output, prev_created, prev_sweep, docVars, listVars>>

\* handle_post up to the return of api.get_post_id
HandlePostLookup ==
    /\ pc = "files"
    /\ \E f \in changed :
        /\ IsPostFile(f)
        /\ LET d == disk[f]
               read == <<Entry(StrfMicro(now), "handling_file"),
                         Entry(StrfMicro(now + 1), "processing_markdown")>>
           IN IF OpenRaises(d)
              THEN /\ Abort("FileNotFoundError")
                   /\ debug_data' = Append(debug_data, Entry(StrfMicro(now), "handling_file"))
                   /\ now' = now + 1
                   /\ UNCHANGED <<cur, post_id, api_debug, calls>>
              ELSE IF ValidateRaises(d)
              THEN /\ Abort("ValueError")
                   /\ debug_data' = debug_data \o read
                   /\ now' = now + 2
                   /\ UNCHANGED <<cur, post_id, api_debug, calls>>
              ELSE \E k \in LookupKinds :
                   LET r == ExecuteRequest(k, now + 3)
                       e == GetPostIdRaises(r)
                       validated == read \o <<Entry(StrfMicro(now + 2), "processed_metadata")>>
                   IN /\ calls' = Append(calls, Call("lookup", d.slug, NoneId, f, 0, k,
                                IF e = "none" THEN GetPostId(remote, d.slug, r.body)
                                ELSE NoneId,
                                [host |-> Host, slug |-> d.slug]))
                      /\ IF e # "none"
                         THEN /\ Abort(e)
                              /\ debug_data' = debug_data \o validated
                              /\ api_debug' = api_debug \o r.log
                              /\ now' = now + 3 + Len(r.log)
                              /\ UNCHANGED <<cur, post_id>>
                         ELSE /\ cur' = f
                              /\ post_id' = GetPostId(remote, d.slug, r.body)
                              /\ api_debug' = api_debug \o <<Entry(StrfSec(now + 3), "slug_post_id")>>
                              /\ debug_data' = debug_data \o validated
                                                 \o <<Entry(StrfMicro(now + 4), "got_post_id")>>
                              /\ now' = now + 5
                              /\ pc' = "write"
                              /\ UNCHANGED exc
    /\ UNCHANGED <<run, disk, changed, publication_id, remote, slugs, after,
                   all_posts, posts, idx, results, output, prev_created, prev_sweep, docVars, listVars>>

\* handle_post from build_post_data to its return
HandlePostWrite ==
    /\ pc = "write"
    /\ \E k \in RespKinds :
        LET d == disk[cur]
            action == PostAction(post_id)
            op == IF action = "update_post" THEN "update" ELSE "create"
            r == ExecuteRequest(k, now)
            got == IF r.raised THEN "raise"
                   ELSE ExtractPostData(r.body, ActionOf(op), MutationField(op))
            post_data == BuildPostData(d, post_id, publication_id)
            served == IF op = "update"
                      THEN UpdatePost(remote, post_id, post_data.slug, post_data.settings.delisted)
                      ELSE PublishPost(remote, post_data.slug, post_data.settings.delisted)
            post == [id |-> PostIdOf(served, d.slug), slug |-> d.slug,
                     keys |-> {"id", "title", "slug"}]
        IN /\ k = "ok" => Accepts(remote, op, d.slug)
           /\ calls' = Append(calls, Call(op, d.slug, post_id, cur, 0, k, NoneId,
                                   [input |-> post_data]))
           /\ CASE got = "raise" ->
                     /\ Abort(IF r.raised THEN "Timeout" ELSE Subscript(r.body))
                     /\ UNCHANGED <<remote, results, debug_data, api_debug, now,
                                    changed, cur, post_id>>
                [] got = "empty" ->
                     /\ api_debug' = api_debug \o r.log
                            \o <<Entry(StrfSec(now + Len(r.log)), "failed_to_" \o action)>>
                     /\ results' = [results EXCEPT !.errors =
                            Append(@, [file |-> cur, error |-> "failed_to_" \o action])]
                     /\ debug_data' = Append(debug_data,
                            Entry(StrfMicro(now + Len(r.log) + 1), "post_action"))
                     /\ now' = now + Len(r.log) + 2
                     /\ changed' = changed \ {cur}
                     /\ cur' = NoPath
                     /\ post_id' = NoneId
                     /\ pc' = "files"
                     /\ remote' = IF k = "ok" THEN served ELSE remote
                     /\ UNCHANGED exc
                [] got = "post" ->
                     /\ remote' = served
                     /\ api_debug' = Append(api_debug, Entry(StrfSec(now), action \o "_done"))
                     /\ results' = [results EXCEPT ![Bucket(post_id)] = Append(@, post)]
                     /\ debug_data' = Append(debug_data, Entry(StrfMicro(now + 1), "post_action"))
                     /\ now' = now + 2
                     /\ changed' = changed \ {cur}
                     /\ cur' = NoPath
                     /\ post_id' = NoneId
                     /\ pc' = "files"
                     /\ UNCHANGED exc
    /\ UNCHANGED <<run, disk, publication_id, slugs, after, all_posts, posts,
                   idx, output, prev_created, prev_sweep, docVars, listVars>>

\* handle_deleted_posts up to the first request of the listing
SweepEnumerate ==
    /\ pc = "files"
    /\ LoopDone(changed)
    /\ LET read == ReadAll(DiskOrder, disk, now)
       IN /\ debug_data' = debug_data \o read.log
          /\ now' = now + Len(read.log)
          /\ IF read.raised
             THEN /\ Abort("ValueError")
                  /\ UNCHANGED <<slugs, after, all_posts>>
             ELSE /\ slugs' = read.slugs
                  /\ after' = 0
                  /\ all_posts' = <<>>
                  /\ pc' = "sweep_list"
                  /\ UNCHANGED exc
    /\ UNCHANGED <<run, disk, changed, cur, post_id, publication_id, remote,
                   posts, idx, results, api_debug, calls, output, prev_created, prev_sweep, docVars, listVars>>

\* get_all_publication_posts: one turn of the while loop; after the last
\* page handle_deleted_posts has its posts
ListPage ==
    /\ pc = "sweep_list"
    /\ \E k \in RespKinds :
        LET r == ExecuteRequest(k, now)
            page == Page(remote, First, after)
            step == IF r.raised THEN "raise" ELSE PageStep(r.body, page)
        IN /\ calls' = Append(calls, Call("list", "-", NoneId, NoPath, after, k, NoneId,
                                   [host |-> Host, first |-> First, after |-> after]))
           /\ api_debug' = api_debug \o r.log
           /\ now' = now + Len(r.log)
           /\ CASE step = "raise" ->
                     /\ Abort(IF r.raised THEN "Timeout" ELSE Subscript(r.body))
                     /\ UNCHANGED <<after, all_posts, posts, idx>>
                [] step = "continue" ->
                     /\ all_posts' = all_posts \o page.edges
                     /\ after' = NextCursor(page)
                     /\ UNCHANGED <<pc, exc, posts, idx>>
                [] step = "break" ->
                     /\ all_posts' = all_posts \o page.edges
                     /\ posts' = all_posts'
                     /\ idx' = 1
                     /\ pc' = AfterPost(1, posts')
                     /\ UNCHANGED <<exc, after>>
    /\ UNCHANGED <<run, disk, changed, cur, post_id, publication_id, remote,
                   slugs, results, debug_data, output, prev_created, prev_sweep, docVars, listVars>>

\* handle_deleted_posts: one turn of the for loop over posts
SweepPost ==
    /\ pc = "sweep_delist"
    /\ LET post == PostAt(posts, idx)
       IN IF ~ShouldDelist(post, slugs)
          THEN /\ idx' = idx + 1
               /\ pc' = AfterPost(idx', posts)
               /\ UNCHANGED <<exc, remote, results, api_debug, now, calls>>
          ELSE \E k \in RespKinds :
               LET r == ExecuteRequest(k, now)
                   got == IF r.raised THEN "raise" ELSE DelistResult(r.body)
                   post_data == DelistInput(post.id)
               IN /\ calls' = Append(calls, Call("delist", post.slug, post.id, NoPath, 0, k,
                                          NoneId, [input |-> post_data]))
                  /\ CASE got = "raise" ->
                            /\ Abort(IF r.raised THEN "Timeout" ELSE Subscript(r.body))
                            /\ UNCHANGED <<idx, remote, results, api_debug, now>>
                       [] got = "false" ->
                            /\ api_debug' = api_debug \o r.log
                                   \o <<Entry(StrfSec(now + Len(r.log)), "failed_to_delist")>>
                            /\ now' = now + Len(r.log) + 1
                            /\ idx' = idx + 1
                            /\ pc' = AfterPost(idx', posts)
                            /\ UNCHANGED <<exc, remote, results>>
                       [] got = "delisted" ->
                            /\ remote' = DelistPost(remote, post_data)
                            /\ api_debug' = Append(api_debug, Entry(RawDatetime(now), "delisted"))
                            /\ now' = now + 1
                            /\ results' = [results EXCEPT !.deleted =
                                   Append(@, [id |-> post.id, slug |-> post.slug,
                                              keys |-> {"id", "slug"}])]
                            /\ idx' = idx + 1
                            /\ pc' = AfterPost(idx', posts)
                            /\ UNCHANGED exc
    /\ UNCHANGED <<run, disk, changed, cur, post_id, publication_id, slugs,
                   after, all_posts, posts, debug_data, output, prev_created, prev_sweep, docVars, listVars>>

\* build_full_debug_data and write_results_to_github_output
Report ==
    /\ pc = "report"
    /\ LET merged == debug_data \o api_debug
       IN IF SortRaises(merged)
          THEN /\ Abort("TypeError")
               /\ debug_data' = merged
               /\ UNCHANGED <<results, output>>
          ELSE /\ debug_data' = SortByTimestamp(merged)
               /\ results' = [results EXCEPT !.debug_data = debug_data']
               /\ IF SummaryRaises(results')
                  THEN /\ Abort("KeyError")
                       /\ output' = <<"result_json">>
                  ELSE /\ output' = <<"result_json", "result_summary">>
                       /\ pc' = "done"
                       /\ UNCHANGED exc
    /\ UNCHANGED <<run, disk, changed, cur, post_id, publication_id, remote,
                   slugs, after, all_posts, posts, idx, api_debug, now, calls, prev_created, prev_sweep, docVars, listVars>>

\* the sweep of the run that has ended: when main got through the sweep and
\* every request of the run was answered ok, the ids it sent a delist
\* request for and the ids of the posts that are delisted now
SweepRecord ==
    IF /\ pc = "done" \/ (pc = "aborted" /\ exc = "TypeError")
       /\ \E i \in 1..Len(calls) : calls[i].op = "list"
       /\ \A i \in 1..Len(calls) : calls[i].reply = "ok"
    THEN [ok |-> TRUE,
          ids |-> {calls[i].id : i \in {k \in 1..Len(calls) : calls[k].op = "delist"}},
          delisted |-> {r.id : r \in {q \in remote : q.delisted}}]
    ELSE NoSweep

\* the action runs again on the same files against the same publication
NextRun ==
    /\ pc \in {"done", "aborted"}
    /\ run < MaxRuns
    /\ run' = run + 1
    /\ pc' = "start"
    /\ exc' = "none"
    /\ changed' = results.input_files
    /\ cur' = NoPath
    /\ post_id' = NoneId
    /\ publication_id' = NoneId
    /\ slugs' = {}
    /\ after' = 0
    /\ all_posts' = <<>>
    /\ posts' = <<>>
    /\ idx' = 1
    /\ results' = EmptyResults(results.input_files)
    /\ debug_data' = <<>>
    /\ api_debug' = <<>>
    /\ calls' = <<>>
    /\ output' = <<>>
    /\ prev_created' = {[id |-> PostIdOf(remote, calls[i].slug), slug |-> calls[i].slug] :
                            i \in {k \in 1..Len(calls) :
                                      calls[k].op = "create" /\ calls[k].reply = "ok"}}
    /\ now' = 0
    /\ prev_sweep' = SweepRecord
    /\ UNCHANGED <<disk, remote, docVars, listVars>>

\* PostService.publish_post up to the return of get_post_id
PublishPostLookup ==
    /\ pc = "svc_idle"
    /\ run <= MaxRuns
    /\ \E f \in PostPaths :
        LET d == disk[f]
            e == ProcessFileRaises(d)
        IN IF e # "none"
           THEN /\ exc' = e
                /\ run' = run + 1
                /\ UNCHANGED <<pc, cur, post_id, api_debug, calls>>
           ELSE \E k \in LookupKinds :
                LET r == GraphQLClientExecute(k)
                IN /\ calls' = Append(calls, Call("lookup", d.slug, NoneId, f, 0, k,
                                IF k = "ok" THEN ServiceGetPostId(remote, d.slug) ELSE NoneId,
                                [host |-> Host, slug |-> d.slug]))
                   /\ api_debug' = api_debug \o r.log
                   /\ IF r.raised
                      THEN /\ exc' = "APIError"
                           /\ run' = run + 1
                           /\ UNCHANGED <<pc, cur, post_id>>
                      ELSE /\ cur' = f
                           /\ post_id' = ServiceGetPostId(remote, d.slug)
                           /\ pc' = "svc_write"
                           /\ exc' = "none"
                           /\ UNCHANGED run
    /\ UNCHANGED <<disk, changed, publication_id, remote, slugs, after,
                   all_posts, posts, idx, results, debug_data, now, output, prev_created, prev_sweep, docVars, listVars>>

\* PostService.publish_post: _build_post_data and _publish_or_update
PublishPostWrite ==
    /\ pc = "svc_write"
    /\ \E k \in RespKinds :
        LET d == disk[cur]
            op == PublishOrUpdate(post_id)
            r == GraphQLClientExecute(k)
            post_data == ServiceBuildPostData(d, post_id)
        IN /\ calls' = Append(calls, Call(op, d.slug, post_id, cur, 0, k, NoneId,
                                   [input |-> post_data]))
           /\ api_debug' = api_debug \o r.log
           /\ exc' = IF r.raised THEN "APIError" ELSE "none"
           /\ remote' = IF r.raised THEN remote
                        ELSE IF op = "update"
                             THEN UpdatePost(remote, post_id, post_data.slug,
                                             post_data.settings.delisted)
                             ELSE PublishPost(remote, post_data.slug,
                                              post_data.settings.delisted)
    /\ pc' = "svc_idle"
    /\ run' = run + 1
    /\ cur' = NoPath
    /\ post_id' = NoneId
    /\ UNCHANGED <<disk, changed, publication_id, slugs, after, all_posts,
                   posts, idx, results, debug_data, now, output, prev_created, prev_sweep, docVars, listVars>>

Next ==
    \/ PublishPostLookup
    \/ PublishPostWrite
    \/ FetchPublicationId
    \/ SkipFile
    \/ HandlePostLookup
    \/ HandlePostWrite
    \/ SweepEnumerate
    \/ ListPage
    \/ SweepPost
    \/ Report
    \/ NextRun

Spec == Init /\ [][Next]_vars

-----------------------------------------------------------------------------
(* One document: from its front matter to its slug *)

TagChars == {"A", "b", " ", ","}

RECURSIVE TagStringsUpTo(_)
TagStringsUpTo(n) ==
    IF n = 0 THEN {<<>>}
    ELSE LET shorter == TagStringsUpTo(n - 1)
         IN shorter \cup {Append(w, c) : w \in shorter, c \in TagChars}

\* the tag string "a, B ,c"
ExampleTags == <<"a", ",", " ", "B", " ", ",", "c">>

\* the tag strings of the front matter
TagStrings == TagStringsUpTo(MaxLen) \cup {ExampleTags}

\* The pieces a body is written from, each a sequence of tokens:
\*   rel    an image with a relative path       ![a](p)
\*   abs    an image with an absolute path      ![a](http p)
\*   link   a link that is not an image         [a](p)
\*   fence  a code fence around an image form   ~~~ \n ![a](p) \n ~~~
\*   text, sp, nl   a word, a blank, a line break
SegmentKinds == {"rel", "abs", "link", "fence", "text", "sp", "nl"}

SegmentText(kind) ==
    CASE kind = "rel" -> <<"!", "[", "a", "]", "(", "p", ")">>
      [] kind = "abs" -> <<"!", "[", "a", "]", "(", "http", "p", ")">>
      [] kind = "link" -> <<"[", "a", "]", "(", "p", ")">>
      [] kind = "fence" -> <<"~~~", "\n", "!", "[", "a", "]", "(", "p", ")", "\n", "~~~">>
      [] kind = "text" -> <<"x">>
      [] kind = "sp" -> <<" ">>
      [] kind = "nl" -> <<"\n">>

RECURSIVE SegmentsUpTo(_)
SegmentsUpTo(n) ==
    IF n = 0 THEN {<<>>}
    ELSE LET shorter == SegmentsUpTo(n - 1)
         IN shorter \cup {Append(w, k) : w \in shorter, k \in SegmentKinds}

\* the text of a sequence of pieces
RECURSIVE Flatten(_)
Flatten(segs) == IF segs = <<>> THEN <<>> ELSE SegmentText(Head(segs)) \o Flatten(Tail(segs))

\* front matter and body of a document; the title, the slug key and the tags
\* key may be absent. Either the title and the slug vary, or the tags do, or
\* the body does together with the presence of the title and the type of
\* the tags.
Frontmatters ==
    [has_title : {TRUE}, title : Strings, has_slug : {TRUE}, slug : Strings,
     has_tags : {FALSE}, tags_is_str : {TRUE}, tags : {<<>>},
     segments : {<<"text">>}, body : {<<"x">>}]
        \cup [has_title : {TRUE}, title : Strings, has_slug : {FALSE}, slug : {<<>>},
              has_tags : {FALSE}, tags_is_str : {TRUE}, tags : {<<>>},
              segments : {<<"text">>}, body : {<<"x">>}]
        \cup [has_title : {TRUE}, title : {<<"A", " ", "b">>}, has_slug : BOOLEAN, slug : {<<>>},
              has_tags : {TRUE}, tags_is_str : {TRUE}, tags : TagStrings,
              segments : {<<"text">>}, body : {<<"x">>}]
        \cup {[has_title |-> t, title |-> IF t THEN <<"A", " ", "b">> ELSE <<>>,
               has_slug |-> FALSE, slug |-> <<>>,
               has_tags |-> ~str, tags_is_str |-> str, tags |-> <<>>,
               segments |-> segs, body |-> Flatten(segs)] :
                  t \in BOOLEAN, str \in BOOLEAN, segs \in SegmentsUpTo(MaxSegments)}

InitDoc ==
    /\ run = 1
    /\ pc = "off"
    /\ exc = "none"
    /\ disk = [f \in PostPaths |-> [slug |-> "-", kind |-> "ok"]]
    /\ changed = {}
    /\ cur = NoPath
    /\ post_id = NoneId
    /\ publication_id = NoneId
    /\ remote = {}
    /\ slugs = {}
    /\ after = 0
    /\ all_posts = <<>>
    /\ posts = <<>>
    /\ idx = 1
    /\ results = EmptyResults({})
    /\ debug_data = <<>>
    /\ api_debug = <<>>
    /\ now = 0
    /\ calls = <<>>
    /\ output = <<>>
    /\ prev_created = {}
    /\ prev_sweep = NoSweep
    /\ fm \in Frontmatters
    /\ stage = "raw"
    /\ metadata = NoMetadata
    /\ post_model = NoPost
    /\ added_files = <<>>
    /\ changed_files = <<>>
    /\ all_changed_files = <<>>
    /\ dispatched = <<>>

\* MarkdownFileHandler.__init__: _process_markdown and _validate
ValidateFrontmatter ==
    /\ stage = "raw"
    /\ LET e == ValidateError(fm)
       IN IF e # "none"
          THEN /\ metadata' = [NoMetadata EXCEPT !.error = e]
               /\ stage' = "rejected"
          ELSE /\ metadata' = [slug |-> ValidatedSlug(fm), tags |-> ValidatedTags(fm),
                               content |-> fm.body, error |-> "none"]
               /\ stage' = "validated"
    /\ UNCHANGED <<fm, post_model, runVars, listVars>>

\* MarkdownFileHandler.build_post_data: _update_image_urls
BuildPost ==
    /\ stage = "validated"
    /\ metadata' = [metadata EXCEPT !.content = UpdateImageUrls(@)]
    /\ stage' = "built"
    /\ UNCHANGED <<fm, post_model, runVars, listVars>>

\* MarkdownProcessor.process_file, and the slug property of its Post
ProcessFile ==
    /\ stage = "raw"
    /\ LET e == ProcessError(fm)
       IN IF e # "none"
          THEN /\ post_model' = [NoPost EXCEPT !.error = e]
               /\ stage' = "rejected"
          ELSE /\ post_model' = [slug |-> PostSlug(fm), tags |-> PostTags(fm),
                                 content |-> UpdateImageUrls(fm.body), error |-> "none"]
               /\ stage' = "processed"
    /\ UNCHANGED <<fm, metadata, runVars, listVars>>

NextDoc == ValidateFrontmatter \/ BuildPost \/ ProcessFile

SpecDoc == InitDoc /\ [][NextDoc]_vars

-----------------------------------------------------------------------------
(* The file lists: constants.py builds ALL_CHANGED_FILES from the
   environment, main's loop passes each entry to handle_post or reports it *)

RECURSIVE SeqsUpTo(_, _)
SeqsUpTo(S, n) ==
    IF n = 0 THEN {<<>>}
    ELSE SeqsUpTo(S, n - 1) \cup {Append(q, x) : q \in SeqsUpTo(S, n - 1), x \in S}

Elements(list) == {list[i] : i \in 1..Len(list)}

\* ADDED_FILES: [Path(f) for f in added_files if f]
AddedFiles(added) == added

\* CHANGED_FILES: [Path(f) for f in changed_files if f and f not in added_files]
ChangedFiles(added, ch) == SelectSeq(ch, LAMBDA f : f \notin Elements(added))

\* as AllChangedFiles, but the two lists are joined without set()
AllChangedFiles_Joined(added, ch) == {AddedFiles(added) \o ChangedFiles(added, ch)}

\* ALL_CHANGED_FILES: list(set(ADDED_FILES + CHANGED_FILES)), every path once,
\* in the order the set happens to iterate in
AllChangedFiles(added, ch) ==
    LET S == Elements(AddedFiles(added) \o ChangedFiles(added, ch))
    IN {q \in SeqsUpTo(S, Cardinality(S)) : Elements(q) = S}

InitFiles ==
    /\ run = 1
    /\ pc = "import"
    /\ exc = "none"
    /\ disk = [f \in PostPaths |-> [slug |-> "-", kind |-> "ok"]]
    /\ changed = {}
    /\ cur = NoPath
    /\ post_id = NoneId
    /\ publication_id = NoneId
    /\ remote = {}
    /\ slugs = {}
    /\ after = 0
    /\ all_posts = <<>>
    /\ posts = <<>>
    /\ idx = 1
    /\ results = EmptyResults({})
    /\ debug_data = <<>>
    /\ api_debug = <<>>
    /\ now = 0
    /\ calls = <<>>
    /\ output = <<>>
    /\ prev_created = {}
    /\ prev_sweep = NoSweep
    /\ fm = NoFrontmatter
    /\ stage = "off"
    /\ metadata = NoMetadata
    /\ post_model = NoPost
    /\ added_files \in SeqsUpTo(ListedPaths, MaxListed)
    /\ changed_files \in SeqsUpTo(ListedPaths, MaxListed)
    /\ all_changed_files = <<>>
    /\ dispatched = <<>>

\* constants.py is imported
ImportConstants ==
    /\ pc = "import"
    /\ all_changed_files' \in AllChangedFiles(added_files, changed_files)
    /\ results' = EmptyResults(Elements(all_changed_files'))
    /\ pc' = "loop"
    /\ UNCHANGED <<run, exc, disk, changed, cur, post_id, publication_id, remote,
                   slugs, after, all_posts, posts, idx, debug_data, api_debug,
                   now, calls, output, prev_created, prev_sweep, docVars,
                   added_files, changed_files, dispatched>>

\* main: the for loop takes a file that handle_post gets
DispatchPost ==
    /\ pc = "loop"
    /\ all_changed_files # <<>>
    /\ IsPostFile(Head(all_changed_files))
    /\ dispatched' = Append(dispatched, Head(all_changed_files))
    /\ all_changed_files' = Tail(all_changed_files)
    /\ UNCHANGED <<runVars, docVars, added_files, changed_files>>

\* main: the for loop takes a file that is only reported
DispatchOther ==
    /\ pc = "loop"
    /\ all_changed_files # <<>>
    /\ ~IsPostFile(Head(all_changed_files))
    /\ results' = [results EXCEPT !.errors =
            Append(@, [file |-> Head(all_changed_files), error |-> "not_a_post"])]
    /\ all_changed_files' = Tail(all_changed_files)
    /\ UNCHANGED <<run, pc, exc, disk, changed, cur, post_id, publication_id, remote,
                   slugs, after, all_posts, posts, idx, debug_data, api_debug,
                   now, calls, output, prev_created, prev_sweep, docVars,
                   added_files, changed_files, dispatched>>

NextFiles == ImportConstants \/ DispatchPost \/ DispatchOther

SpecFiles == InitFiles /\ [][NextFiles]_vars

TypeOK ==
    /\ run \in 1..(MaxRuns + 1)
    /\ pc \in {"start", "files", "write", "sweep_list", "sweep_delist",
               "report", "done", "aborted", "svc_idle", "svc_write"}
    /\ changed \subseteq Paths
    /\ post_id \in Nat

-----------------------------------------------------------------------------
(* Properties *)

\* main() is what runs (not a caller of PostService, not a single document)
InMain == pc \in {"start", "files", "write", "sweep_list", "sweep_delist",
                  "report", "done", "aborted"}

CallsOf(ops) == {i \in 1..Len(calls) : calls[i].op \in ops}

Writes == {"create", "update"}

\* the slugs of the documents in the posts directory
LocalSlugs == {disk[f].slug : f \in {g \in PostPaths : disk[g].kind = "ok"}}

AllValid == \A f \in PostPaths : disk[f].kind = "ok"

\* C1: a successful lookup of a file is followed by exactly one request for
\* that file: a create when no post was found, an update with the id that was
\* found otherwise; no create or update is made but right after the lookup
\* of its file, and one run looks a file up at most once.
C1_CreateXorUpdate ==
    /\ \A i \in CallsOf({"lookup"}) :
        calls[i].reply = "ok" =>
            IF i = Len(calls)
            THEN /\ pc \in {"write", "svc_write"}
                 /\ cur = calls[i].file
                 /\ post_id = calls[i].found
            ELSE /\ calls[i + 1].file = calls[i].file
                 /\ calls[i + 1].op = IF calls[i].found = NoneId THEN "create" ELSE "update"
                 /\ calls[i + 1].id = calls[i].found
    /\ \A j \in CallsOf(Writes) :
        /\ j > 1
        /\ calls[j - 1].op = "lookup"
        /\ calls[j - 1].file = calls[j].file
    /\ InMain => \A i, j \in CallsOf({"lookup"}) : calls[i].file = calls[j].file => i = j

\* one run has created a post for one file and updated the post of another
C1_Witness ==
    /\ InMain
    /\ pc = "files"
    /\ \E i, j \in CallsOf(Writes) :
        /\ calls[i].op = "create" /\ calls[i].id = NoneId
        /\ calls[j].op = "update" /\ calls[j].id # NoneId

\* the ids of the listed posts whose slug no local document has
Missing == {posts[i].id : i \in {k \in 1..Len(posts) : posts[k].slug \notin LocalSlugs}}

\* the ids that a delist request was made for
DelistCalled == {calls[i].id : i \in CallsOf({"delist"})}

\* C2: the posts that get a delist request are exactly the listed posts whose
\* slug no local document has: never another one, and all of them once the
\* run has ended.
C2_DelistExactlyMissing ==
    InMain =>
        /\ DelistCalled \subseteq Missing
        /\ pc \in {"done", "aborted"} => DelistCalled = Missing

\* C3: a lookup that fails leaves an error entry for its file and does not
\* end the run.
C3_LookupFailureIsolated ==
    InMain =>
        \A i \in CallsOf({"lookup"}) :
            calls[i].reply # "ok" =>
                /\ pc # "aborted"
                /\ \E k \in 1..Len(results.errors) : results.errors[k].file = calls[i].file

\* C4: a document that does not validate never ends the run.
C4_ValidationErrorIsolated ==
    InMain => ~(pc = "aborted" /\ exc = "ValueError")

\* C5: a page of the listing that fails ends the run with an exception: the
\* posts of the earlier pages never become the posts of the sweep and no
\* delist request follows; whenever the sweep has its posts, every page was
\* read and the posts are all the posts of the publication.
C5_NoPartialListing ==
    InMain =>
        /\ (\E i \in CallsOf({"list"}) : calls[i].reply # "ok") =>
              /\ pc = "aborted"
              /\ exc # "none"
              /\ posts = <<>>
              /\ CallsOf({"delist"}) = {}
              /\ results.deleted = <<>>
        /\ (pc \in {"sweep_delist", "report", "done"} \/ CallsOf({"delist"}) # {}) =>
              /\ \A i \in CallsOf({"list"}) : calls[i].reply = "ok"
              /\ {posts[i].id : i \in 1..Len(posts)} = {r.id : r \in remote}

\* the second page of the listing failed after the first one was accumulated
C5_Witness ==
    /\ pc = "aborted"
    /\ calls # <<>>
    /\ calls[Len(calls)].op = "list"
    /\ calls[Len(calls)].after > 0
    /\ calls[Len(calls)].reply # "ok"
    /\ all_posts # <<>>

\* C6: the first request of a run resolves the publication and no later one
\* does; when it fails the run is over and no other request is ever made.
C6_ResolveOnceFirst ==
    InMain =>
        /\ pc # "start" => calls # <<>>
        /\ \A i \in 1..Len(calls) : calls[i].op = "resolve" <=> i = 1
        /\ (calls # <<>> /\ calls[1].reply # "ok") =>
              /\ Len(calls) = 1
              /\ pc = "aborted"
              /\ publication_id = NoneId
        /\ publication_id = NoneId => Len(calls) <= 1

\* the publication could not be resolved
C6_Witness ==
    /\ pc = "aborted"
    /\ Len(calls) = 1
    /\ calls[1].op = "resolve"
    /\ calls[1].reply # "ok"

\* every create, update and delist request of the run has its entry in the
\* results
EveryFateReported ==
    /\ \A i \in CallsOf(Writes) :
        \/ \E k \in 1..Len(results.errors) : results.errors[k].file = calls[i].file
        \/ \E b \in {results.added, results.modified} :
              \E k \in 1..Len(b) : b[k].slug = calls[i].slug
    /\ \A i \in CallsOf({"delist"}) :
        \/ \E k \in 1..Len(results.deleted) : results.deleted[k].id = calls[i].id
        \/ \E k \in 1..Len(results.errors) : results.errors[k].file = calls[i].slug

\* C7: once the publication is resolved (and every document validates, every
\* lookup and listing page succeeds), the run does not end before the report
\* is written, however the creates, updates and delists turn out, and the
\* report has the fate of every item.
C7_RunCompletes ==
    (/\ InMain
     /\ publication_id # NoneId
     /\ AllValid
     /\ \A i \in CallsOf({"resolve", "lookup", "list"}) : calls[i].reply = "ok")
    => /\ pc # "aborted"
       /\ pc = "done" => (output = <<"result_json", "result_summary">> /\ EveryFateReported)

\* C8: a file whose post the previous run created, and whose lookup the
\* publication answers, is updated, with the id of that post, and not
\* created again; the publication never has two posts with one slug.
C8_SecondRunUpdates ==
    InMain =>
        /\ \A i \in CallsOf(Writes) :
            \A p \in prev_created :
                (p.slug = calls[i].slug /\ calls[i - 1].reply = "ok")
                => (calls[i].op = "update" /\ calls[i].id = p.id)
        /\ UniqueIdsAndSlugs(remote)

\* the second run has updated a post that the first run created
C8_Witness ==
    /\ run = 2
    /\ \E i \in CallsOf({"update"}) :
        /\ calls[i].reply = "ok"
        /\ \E p \in prev_created : p.id = calls[i].id /\ p.slug = calls[i].slug

\* C9: the requests of a run are made one file after the other, and the
\* sweep's requests after those of all files: a lookup is followed at once by
\* its create or update, no file request follows a list or delist request,
\* and a list request is made only when no changed file is left or pending.
C9_StrictlySequential ==
    InMain =>
        /\ \A i \in CallsOf({"lookup"}) :
            i < Len(calls) => (calls[i + 1].op \in Writes /\ calls[i + 1].file = calls[i].file)
        /\ \A i, j \in 1..Len(calls) :
            (i < j /\ calls[i].op \in {"list", "delist"}) => calls[j].op \in {"list", "delist"}
        /\ CallsOf({"list", "delist"}) # {} =>
              /\ changed = {}
              /\ cur = NoPath
              /\ pc \notin {"files", "write"}
        /\ pc = "write" => calls[Len(calls)].op = "lookup" /\ calls[Len(calls)].file = cur

\* the sweep has asked for a delisting after two files were written
C9_Witness ==
    /\ InMain
    /\ CallsOf({"delist"}) # {}
    /\ Cardinality(CallsOf(Writes)) = 2

\* C10: _generate_slug applied twice gives what it gives once, and the slug
\* of every document is unchanged by it.
C10_SlugIdempotent ==
    /\ \A w \in {fm.title, fm.slug} :
        /\ GenerateSlug(GenerateSlug(w)) = GenerateSlug(w)
        /\ PostGenerateSlug(PostGenerateSlug(w)) = PostGenerateSlug(w)
    /\ stage = "validated" => metadata.slug = GenerateSlug(GenerateSlug(metadata.slug))
    /\ stage = "processed" => post_model.slug = PostGenerateSlug(PostGenerateSlug(post_model.slug))

\* the string a document's slug is derived from
SlugSource == IF fm.has_slug THEN fm.slug ELSE fm.title

\* C11: the slug of every document is the normalization of the explicit slug
\* if the front matter has one and of the title otherwise, and it contains no
\* upper-case letter and no whitespace.
C11_SlugAlwaysNormalized ==
    LET Clean(w) == \A i \in 1..Len(w) : w[i] \notin {"A", "B"} /\ ~IsSpace(w[i])
    IN /\ stage = "validated" =>
            metadata.slug = GenerateSlug(SlugSource) /\ Clean(metadata.slug)
       /\ stage = "processed" =>
            post_model.slug = PostGenerateSlug(SlugSource) /\ Clean(post_model.slug)

\* the entries "a, B ,c" stands for
ExampleTagList ==
    << [slug |-> <<"a">>, name |-> <<"a">>],
       [slug |-> <<"b">>, name |-> <<"B">>],
       [slug |-> <<"c">>, name |-> <<"c">>] >>

\* C12: a non-empty tag string becomes one entry per comma-separated token,
\* in the order of the tokens; the name of an entry is the token without its
\* leading and trailing whitespace and its slug is that name in lower case.
\* "a, B ,c" gives the slugs a, b, c and the names a, B, c.
C12_OneEntryPerToken ==
    LET w == fm.tags
        commas == {i \in 1..Len(w) : w[i] = ","}
        KthComma(k) == CHOOSE i \in commas : Cardinality({j \in commas : j < i}) = k - 1
        n == Cardinality(commas) + 1
        from(k) == IF k = 1 THEN 1 ELSE KthComma(k - 1) + 1
        to(k) == IF k = n THEN Len(w) ELSE KthComma(k) - 1
        inked(k) == {i \in from(k)..to(k) : w[i] # " "}
        first(k) == CHOOSE i \in inked(k) : \A j \in inked(k) : i <= j
        last(k) == CHOOSE i \in inked(k) : \A j \in inked(k) : i >= j
        trimmed(k) == IF inked(k) = {} THEN <<>> ELSE SubSeq(w, first(k), last(k))
        lowered(t) == [i \in 1..Len(t) |-> IF t[i] = "A" THEN "a"
                                           ELSE IF t[i] = "B" THEN "b" ELSE t[i]]
        expected == [k \in 1..n |-> [slug |-> lowered(trimmed(k)), name |-> trimmed(k)]]
    IN (fm.has_tags /\ fm.tags # <<>>) =>
        /\ stage = "validated" => metadata.tags = expected
        /\ stage = "processed" => post_model.tags = [is_none |-> FALSE, list |-> expected]
        /\ (stage = "validated" /\ fm.tags = ExampleTags) => metadata.tags = ExampleTagList

\* "a, B ,c" has been validated into its three entries
C12_Witness ==
    /\ stage = "validated"
    /\ fm.has_tags
    /\ fm.tags = ExampleTags
    /\ Len(metadata.tags) = 3
    /\ metadata.tags[2].name = <<"B">>

\* C13: a document whose front matter has no tags, or an empty tag string,
\* has an empty tag list.
C13_NoTagsEmptyList ==
    (~fm.has_tags \/ fm.tags = <<>>) =>
        /\ stage = "validated" => metadata.tags = <<>>
        /\ stage = "processed" => ~post_model.tags.is_none /\ post_model.tags.list = <<>>

\* C14: the input of a create has no id, its settings are
\* enableTableOfContent, delisted and slugOverridden = true, and
\* disableComments stands beside the settings; the input of an update has
\* the id the lookup found, its settings are isTableOfContentEnabled,
\* delisted and disableComments, and it has no disableComments beside the
\* settings. The values are those of the document's front matter.
C14_PayloadShapes ==
    \A i \in CallsOf(Writes) :
        LET input == calls[i].variables.input
            flags == disk[calls[i].file].flags
        IN IF calls[i].op = "create"
           THEN /\ DOMAIN input = {"publicationId", "slug", "settings", "disableComments"}
                /\ DOMAIN input.settings = {"enableTableOfContent", "delisted", "slugOverridden"}
                /\ input.settings.slugOverridden = TRUE
                /\ input.settings.enableTableOfContent = flags.toc
                /\ input.settings.delisted = flags.delisted
                /\ input.disableComments = flags.comments
           ELSE /\ DOMAIN input = {"id", "publicationId", "slug", "settings"}
                /\ DOMAIN input.settings = {"isTableOfContentEnabled", "delisted", "disableComments"}
                /\ input.id # NoneId
                /\ i > 1 /\ input.id = calls[i - 1].found
                /\ input.settings.isTableOfContentEnabled = flags.toc
                /\ input.settings.delisted = flags.delisted
                /\ input.settings.disableComments = flags.comments

\* one run of main has sent a create for a document that turns the comments
\* off and an update for a document that turns the table of contents on
C14_Witness ==
    /\ InMain
    /\ \E i, j \in CallsOf(Writes) :
        /\ calls[i].op = "create"
        /\ calls[i].variables.input.disableComments
        /\ calls[j].op = "update"
        /\ calls[j].variables.input.settings.isTableOfContentEnabled

\* the operations HashnodeAPI and PostService have a request for
Operations == {"resolve", "lookup", "list", "create", "update", "delist"}

RemoteIds(S) == {r.id : r \in S}

\* C15: no step takes a post out of the publication; the sweep changes a
\* post only by an update whose input is the id of a listed post without a
\* local document and settings.delisted = true, and what changes is that the
\* post is delisted; no request other than resolve, lookup, list, create,
\* update and delist is ever made.
C15_DelistIsOnlyDeletion ==
    [][ /\ RemoteIds(remote) \subseteq RemoteIds(remote')
        /\ Len(calls') > Len(calls) =>
            LET c == calls'[Len(calls')]
            IN /\ c.op \in Operations
               /\ c.op = "delist" =>
                    /\ c.variables.input = [id |-> posts[idx].id, settings |-> [delisted |-> TRUE]]
                    /\ posts[idx].slug \notin slugs
                    /\ posts[idx].id \in RemoteIds(remote)
        /\ (pc \in {"sweep_list", "sweep_delist"} /\ remote' # remote) =>
            /\ Len(calls') > Len(calls)
            /\ calls'[Len(calls')].op = "delist"
            /\ \A r \in remote :
                IF r.id = posts[idx].id
                THEN [r EXCEPT !.delisted = TRUE] \in remote'
                ELSE r \in remote'
      ]_vars

\* the sweep has delisted a post, which is still in the publication
C15_Witness ==
    \E i \in CallsOf({"delist"}) :
        /\ calls[i].reply = "ok"
        /\ \E r \in remote : r.id = calls[i].id /\ r.delisted /\ r.slug \notin LocalSlugs

\* C16: a request that times out is answered like one with a non-2xx
\* status: no exception ends the run, and the file of a create or update
\* that timed out has its entry in the errors.
C16_TimeoutIsFailureOutcome ==
    InMain =>
        \A i \in CallsOf(Operations \ {"resolve"}) :
            calls[i].reply = "timeout" =>
                /\ ~(pc = "aborted" /\ exc = "Timeout")
                /\ calls[i].op \in Writes =>
                      \E k \in 1..Len(results.errors) : results.errors[k].file = calls[i].file

\* C17: in a run that no exception has ended, every delist request has
\* exactly one entry in the results: the post among the deleted ones, or an
\* error that names the post.
C17_DelistOutcomeRecorded ==
    (InMain /\ pc # "aborted") =>
        \A i \in CallsOf({"delist"}) :
            LET done == {k \in 1..Len(results.deleted) : results.deleted[k].id = calls[i].id}
                failed == {k \in 1..Len(results.errors) :
                              results.errors[k].file \in {calls[i].slug, calls[i].file}}
            IN Cardinality(done) + Cardinality(failed) = 1

\* s is the beginning of t
IsPrefix(s, t) == Len(s) <= Len(t) /\ SubSeq(t, 1, Len(s)) = s

\* C18: within a run of main the added, modified and error entries are only
\* appended to, and the step that makes a create or update request appends
\* exactly one entry: the post that came back to added when a create
\* succeeded, to modified when an update succeeded, and an error for the
\* file when the request failed.
C18_OneOutcomePerFile ==
    [][ (InMain /\ run' = run) =>
          /\ IsPrefix(results.added, results'.added)
          /\ IsPrefix(results.modified, results'.modified)
          /\ IsPrefix(results.errors, results'.errors)
          /\ (Len(calls') > Len(calls) /\ calls'[Len(calls')].op \in Writes) =>
                LET c == calls'[Len(calls')]
                    grown(b) == Len(results'[b]) - Len(results[b])
                    last(b) == results'[b][Len(results'[b])]
                IN /\ grown("added") + grown("modified") + grown("errors") = 1
                   /\ (c.reply = "ok" /\ c.op = "create") =>
                         grown("added") = 1 /\ last("added").slug = c.slug
                   /\ (c.reply = "ok" /\ c.op = "update") =>
                         grown("modified") = 1 /\ last("modified").id = c.id
                   /\ c.reply # "ok" =>
                         grown("errors") = 1 /\ last("errors").file = c.file
      ]_vars

\* the sweep of the run is over: main is at the report, or past it
SweepOver ==
    /\ InMain
    /\ \/ pc \in {"report", "done"}
       \/ pc = "aborted" /\ exc = "KeyError" /\ output # <<>>
       \/ pc = "aborted" /\ exc = "TypeError"
             /\ \A i \in 1..Len(calls) : calls[i].reply = "ok"

\* C19: whatever the changed files of the run are, the slugs the sweep
\* compares with are those of all documents in the posts directory, and
\* when the sweep is over and no request of the run has failed, every
\* listed post without a local document has had its delist request, and no
\* other post has.
C19_SweepUsesAllLocalDocuments ==
    /\ (InMain /\ pc \in {"sweep_list", "sweep_delist", "report", "done"}) => slugs = LocalSlugs
    /\ (SweepOver /\ \A i \in 1..Len(calls) : calls[i].reply = "ok") =>
          /\ slugs = LocalSlugs
          /\ DelistCalled = Missing
          /\ \A r \in remote : r.slug \notin LocalSlugs => r.delisted

\* with no changed file at all, the sweep has delisted a post and has left
\* alone the post of a document that was not among the changed files
C19_Witness ==
    /\ SweepOver
    /\ results.input_files = {}
    /\ \A i \in 1..Len(calls) : calls[i].reply = "ok"
    /\ DelistCalled # {}
    /\ \E r \in remote : r.slug \in LocalSlugs /\ ~r.delisted /\ r.id \notin DelistCalled

\* the page the publication returns to the i-th request of the run
PageOf(i) == Page(remote, calls[i].variables.first, calls[i].variables.after)

\* the listing has been returned to handle_deleted_posts
ListingDone ==
    /\ InMain
    /\ CallsOf({"list"}) # {}
    /\ \A i \in CallsOf({"list"}) : calls[i].reply = "ok"
    /\ pc # "sweep_list"

\* C20: the first request of the listing has no cursor and asks for 50
\* posts; each further request has the endCursor of the page before it,
\* which was read and had a next page; no request follows a page without a
\* next page; the cursors grow from request to request, so the walk ends;
\* and the posts returned are those of all pages in the publication's order,
\* one request for each page.
C20_ListAllPages ==
    InMain =>
        /\ \A i \in CallsOf({"list"}) :
            /\ calls[i].variables.first = 50
            /\ IF i - 1 \in CallsOf({"list"})
               THEN /\ calls[i - 1].reply = "ok"
                    /\ PageOf(i - 1).hasNextPage
                    /\ calls[i].variables.after = PageOf(i - 1).endCursor
                    /\ calls[i].variables.after > calls[i - 1].variables.after
               ELSE calls[i].variables.after = 0
            /\ (calls[i].reply = "ok" /\ ~PageOf(i).hasNextPage) =>
                  /\ pc # "sweep_list"
                  /\ \A j \in CallsOf({"list"}) : j <= i
            /\ (calls[i].reply = "ok" /\ PageOf(i).hasNextPage /\ i = Len(calls)) =>
                  pc = "sweep_list"
        /\ ListingDone =>
              /\ posts = Listing(remote)
              /\ Cardinality(CallsOf({"list"})) * PageCap >= Len(posts)
              /\ (Cardinality(CallsOf({"list"})) - 1) * PageCap < Len(posts) \/ posts = <<>>
              /\ posts = <<>> => Cardinality(CallsOf({"list"})) = 1

\* a listing of more than one page has been returned
C20_Witness ==
    /\ ListingDone
    /\ Cardinality(CallsOf({"list"})) > 1
    /\ Len(posts) > 1
    /\ posts = Listing(remote)

\* the position in the listing of the post with the given id
PositionOf(id) == CHOOSE k \in 1..Len(posts) : posts[k].id = id

\* C21: the delist requests of the sweep are made in the order of the
\* listing: each is for a listed post, a later one for a post further down
\* the listing, and when one is made every post above it that has no local
\* document has had its own.
C21_DelistInListingOrder ==
    InMain =>
        /\ \A i \in CallsOf({"delist"}) :
            /\ \E k \in 1..Len(posts) : posts[k].id = calls[i].id
            /\ \A k \in 1..Len(posts) :
                (k < PositionOf(calls[i].id) /\ posts[k].slug \notin slugs) =>
                    \E j \in CallsOf({"delist"}) : j < i /\ calls[j].id = posts[k].id
        /\ \A i, j \in CallsOf({"delist"}) :
            i < j => PositionOf(calls[i].id) < PositionOf(calls[j].id)
        /\ posts = <<>> \/ posts = all_posts

\* the sweep has asked for the delisting of two posts, the first of the
\* listing first
C21_Witness ==
    /\ InMain
    /\ \E i, j \in CallsOf({"delist"}) :
        /\ i < j
        /\ calls[i].id = posts[1].id
        /\ calls[j].id = posts[2].id

\* C22: a document is rejected exactly when its front matter has no title,
\* whatever its body and its other fields are.
C22_TitleOnlyRequired ==
    /\ stage = "rejected" => ~fm.has_title
    /\ stage \in {"validated", "built", "processed"} => fm.has_title

\* the text a body's pieces stand for once the relative images, and nothing
\* else, have the resource URL of their path
RECURSIVE Rewritten(_)
Rewritten(segs) ==
    IF segs = <<>> THEN <<>>
    ELSE (IF Head(segs) = "rel"
          THEN <<"!", "[", "a", "]", "(", "http", "raw/posts/", "p", ")">>
          ELSE SegmentText(Head(segs))) \o Rewritten(Tail(segs))

\* C25: in the content of a post every image with a relative path has the
\* resource URL of that path and its alt text, and every other piece of the
\* body (an image with an absolute path, a link, a code fence with an image
\* form in it, text) is as it was written.
C25_OnlyRelativeImagesRewritten ==
    /\ stage = "built" => metadata.content = Rewritten(fm.segments)
    /\ stage = "processed" => post_model.content = Rewritten(fm.segments)

\* C23: within a run of main the debug entries of the API are only appended
\* to, and the step that makes a request appends exactly one entry, whether
\* the request succeeds or fails.
C23_OneDebugEntryPerCall ==
    [][ (InMain /\ run' = run) =>
          /\ IsPrefix(api_debug, api_debug')
          /\ Len(debug_data) <= Len(debug_data')
          /\ Len(calls') > Len(calls) => Len(api_debug') = Len(api_debug) + 1
      ]_vars

\* C24: the posts the sweep puts among the deleted ones have an id and a
\* slug and nothing else, and create_result_summary can be applied to the
\* results of the run without a KeyError for a field they do not have.
C24_ListedPostsNeedOnlyIdAndSlug ==
    InMain =>
        /\ \A k \in 1..Len(results.deleted) : results.deleted[k].keys = {"id", "slug"}
        /\ ~SummaryRaises(results)

\* C26: within a run, after a create for a slug has succeeded no other
\* create is made for that slug: the request for a later file with the same
\* slug is an update of the post that was created; the publication never
\* has two posts with one slug.
C26_SlugCollisionUpdates ==
    InMain =>
        /\ \A i, j \in CallsOf(Writes) :
            (/\ i < j
             /\ calls[i].op = "create"
             /\ calls[i].reply = "ok"
             /\ calls[j].slug = calls[i].slug)
            => /\ calls[j].op = "update"
               /\ calls[j].file # calls[i].file
               /\ calls[j].id = PostIdOf(remote, calls[i].slug)
               /\ calls[j].variables.input.id = calls[j].id
        /\ UniqueIdsAndSlugs(remote)

\* C27: a create is made for a file only right after a lookup of that file
\* that succeeded and found no post, an update only after one that found
\* the post; a lookup that failed is followed by no create or update, and
\* in main by no request at all.
C27_FailedLookupIsNotAbsence ==
    /\ \A j \in CallsOf(Writes) :
        /\ j > 1
        /\ calls[j - 1].op = "lookup"
        /\ calls[j - 1].file = calls[j].file
        /\ calls[j - 1].reply = "ok"
        /\ calls[j].op = "create" <=> calls[j - 1].found = NoneId
    /\ \A i \in CallsOf({"lookup"}) :
        calls[i].reply # "ok" =>
            /\ i < Len(calls) => calls[i + 1].op \notin Writes
            /\ InMain => (i = Len(calls) /\ pc = "aborted")
            /\ i = Len(calls) => pc \notin {"write", "svc_write"}

\* C28: every entry of the debug lists of a run carries a formatted string
\* as its timestamp, so the merged list has keys of one type and sorting it
\* by timestamp does not raise.
C28_TimestampsOfOneKind ==
    InMain =>
        LET merged == debug_data \o api_debug
        IN /\ \A i \in 1..Len(merged) : merged[i].ts.type = "str"
           /\ ~SortRaises(merged)

\* how often f is in a list
Count(list, f) == Cardinality({i \in 1..Len(list) : list[i] = f})

\* the files of the entries of results["errors"], in order
ReportedFiles == [i \in 1..Len(results.errors) |-> results.errors[i].file]

\* C29: a changed file that is not a .md file or not under the posts
\* directory is never passed to handle_post, which makes the requests of a
\* file, and gets exactly one entry in errors; every path of the added and
\* changed lists is taken by the loop exactly once, also when it is in both
\* lists, and no other path is taken.
C29_NonPostFilesOnlyReported ==
    pc = "loop" =>
        \A f \in ListedPaths :
            LET listed == f \in Elements(added_files) \cup Elements(changed_files)
                handled == Count(dispatched, f)
                reported == Count(ReportedFiles, f)
                left == Count(all_changed_files, f)
                other == Suffix(f) # ".md" \/ ~IsRelativeTo(f, PostsDirectory)
            IN /\ handled + reported + left = IF listed THEN 1 ELSE 0
               /\ other => handled = 0
               /\ (other /\ listed /\ left = 0) => reported = 1
               /\ ~other => reported = 0

\* the loop is through: a .md file outside the posts directory that is in
\* both lists was reported once, a post file in both lists was passed on once
C29_Witness ==
    /\ pc = "loop"
    /\ all_changed_files = <<>>
    /\ added_files = <<"docs/p3.md", "posts/p1.md">>
    /\ changed_files = <<"posts/p1.md", "docs/p3.md">>
    /\ dispatched = <<"posts/p1.md">>
    /\ ReportedFiles = <<"docs/p3.md">>

\* the ids of the posts that are delisted
Delisted(S) == {r.id : r \in {q \in S : q.delisted}}

\* C30: a run on the same files after a run whose sweep went through with
\* every request answered sends delist requests for no post the earlier
\* sweep did not send one for, and once its own sweep is through for all of
\* them; the delisted posts stay exactly those the earlier run left
\* delisted; and a step with a delist request changes no post but the one
\* of its id and takes the delisted flag from none.
C30_SweepIdempotent ==
    [][ /\ (InMain /\ run > 1 /\ prev_sweep.ok)' =>
            /\ DelistCalled' \subseteq prev_sweep'.ids
            /\ pc' \in {"report", "done"} => DelistCalled' = prev_sweep'.ids
            /\ Delisted(remote') = prev_sweep'.delisted
        /\ (Len(calls') > Len(calls) /\ calls'[Len(calls')].op = "delist") =>
            /\ \A r \in remote : r.id # calls'[Len(calls')].id => r \in remote'
            /\ Delisted(remote) \subseteq Delisted(remote')
            /\ RemoteIds(remote') = RemoteIds(remote)
      ]_vars

\* the second run has delisted again, with success, the post that the
\* first run's sweep delisted, and its sweep is through
C30_Witness ==
    /\ InMain
    /\ run = 2
    /\ prev_sweep.ok
    /\ prev_sweep.ids # {}
    /\ pc = "report"
    /\ DelistCalled = prev_sweep.ids
    /\ \A i \in CallsOf({"delist"}) : calls[i].reply = "ok"
    /\ Delisted(remote) = prev_sweep.ids

====
